---- MODULE Spec2Model ----
(***************************************************************************)
(* Bulls and Cows: the entropy-maximising solver                           *)
(* (Bulls_and_Cows_Computer_Guessing.py) and the scorer of the             *)
(* user-guessing variant (Bulls_and_Cows_User_Guessing.py).                *)
(*                                                                         *)
(* A code (a Python str of digit characters) is a sequence of digits; a    *)
(* list of codes is a sequence of codes.  The alphabet is scaled down from *)
(* the program's ten digits to NumDigits digits; the code length stays 4.  *)
(*                                                                         *)
(* Entropy values.  calculate_entropy returns the float                    *)
(*     H = -SUM (c/n) * log2(c/n) = log2(n) - log2(P) / n,                 *)
(* where c ranges over the sizes of the feedback classes, n is their sum   *)
(* and P is the product of c^c.  The model keeps (n, P) with P an exact    *)
(* natural number (arbitrary precision, see BigMul), so for one n          *)
(*     H1 > H2  iff  P1 < P2,     H = log2(n)  iff  P = 1,                 *)
(*     H = 0    iff  P = n^n  (one class).                                 *)
(* A class of 2 or more makes P >= 4, i.e. log2(n) - H >= 2/n, which is    *)
(* above the 1e-10 tolerance for every n below 2e10; so the tolerance test *)
(* of line 133 is P = 1.                                                   *)
(*                                                                         *)
(* Floating point.  Two guesses with the same multiset of class sizes have *)
(* the same exact entropy, but the loop of lines 100-102 adds the terms in *)
(* the order the feedbacks first appear, and sums of the same terms in     *)
(* different orders may differ in the last bits.  An entropy value keeps   *)
(* that order (`counts`); which order rounds highest is not computed but   *)
(* chosen: every evaluation of find_best_guess takes a parameter `high`,   *)
(* any one of the orders present or none (see EntropyGreater), and the     *)
(* driver and the stand-alone call choose it nondeterministically.         *)
(***************************************************************************)
EXTENDS Integers, Sequences, FiniteSets, TLC

\* ---------------------------------------------------------------- bounds
NumDigits == 4       \* size of the alphabet '0'..; the program uses 10
MaxList == 3         \* longest candidate list given to filter_codes alone
MaxCand == 3         \* largest candidate list given to find_best_guess alone
PoolSize == 5        \* the candidates given to find_best_guess alone come from
                     \* PoolSize codes of the guess space
MaxSpace == 3        \* longest guess space given to find_best_guess alone that
                     \* stops before the end of the guess space
FilterPool == 3      \* the codes given to filter_codes alone come from
                     \* FilterPool codes of the guess space
RepDigits == 4       \* alphabet of the codes with repeated digits

\* ------------------------------------------------------ program constants
CodeLen == 4         \* range(4), permutations(..., 4)
MaxFeedback == 4     \* the 4 of the driver's validation
MARK_X == -1         \* 'x': a secret position consumed by a bull
MARK_Y == -2         \* 'y': a guess position consumed by a bull
MARK_Z == -3         \* 'z': a secret position consumed by a cow

Digits == 0 .. (NumDigits - 1)

\* ------------------------------------------------------------- helpers
RECURSIVE SumSeq(_)
SumSeq(s) == IF s = <<>> THEN 0 ELSE Head(s) + SumSeq(Tail(s))

SeqToSet(s) == { s[i] : i \in 1 .. Len(s) }

Min2(a, b) == IF a <= b THEN a ELSE b

\* the sequence s, written out element by element
ListOf(s) == s \o << >>

\* list.count(x)
Count(s, x) == Cardinality({ i \in 1 .. Len(s) : s[i] = x })

\* x in list
Contains(s, x) == \E i \in 1 .. Len(s) : s[i] = x

\* list.index(x), for x in list: the first position holding x
IndexOf(s, x) == CHOOSE i \in 1 .. Len(s) : s[i] = x /\ \A j \in 1 .. (i - 1) : s[j] # x

\* ----------------------------------------------- compute_feedback (marking)
\* Lines 35-40: the bulls pass.  Position i of both copies is marked when the
\* digits agree; a mark never changes another position's comparison.
IsBull(secret, guess, i) == guess[i] = secret[i]

BullsOf(secret, guess) == Cardinality({ i \in 1 .. CodeLen : IsBull(secret, guess, i) })

SecretAfterBulls(secret, guess) ==
    ListOf([ i \in 1 .. CodeLen |-> IF IsBull(secret, guess, i) THEN MARK_X ELSE secret[i] ])

GuessAfterBulls(secret, guess) ==
    ListOf([ i \in 1 .. CodeLen |-> IF IsBull(secret, guess, i) THEN MARK_Y ELSE guess[i] ])

\* Lines 43-47: the cows pass, position by position, consuming the first
\* occurrence of the guess digit left in secret_digits.
CowHit(secret_digits, guess_digits, i) ==
    guess_digits[i] # MARK_Y /\ Contains(secret_digits, guess_digits[i])

RECURSIVE CowsPass(_, _, _, _)
CowsPass(secret_digits, guess_digits, i, cows) ==
    IF i > CodeLen THEN cows
    ELSE IF CowHit(secret_digits, guess_digits, i)
         THEN CowsPass([ secret_digits EXCEPT ![IndexOf(secret_digits, guess_digits[i])] = MARK_Z ],
                       guess_digits, i + 1, cows + 1)
         ELSE CowsPass(secret_digits, guess_digits, i + 1, cows)

compute_feedback(secret, guess) ==
    << BullsOf(secret, guess),
       CowsPass(SecretAfterBulls(secret, guess), GuessAfterBulls(secret, guess), 1, 0) >>

\* ------------------------------------ compute_feedback (user-guessing file)
\* Common as it would be with the sum taken over the positions of guess
\* instead of its distinct digits
CommonMut(secret, guess) ==
    SumSeq([ i \in 1 .. Len(guess) |-> Min2(Count(secret, guess[i]), Count(guess, guess[i])) ])

\* bulls = sum(s == g for s, g in zip(secret, guess))
\* common = sum(min(secret.count(d), guess.count(d)) for d in set(guess))
Common(secret, guess) ==
    LET ds == SeqToSet(guess)
        RECURSIVE SumOver(_)
        SumOver(S) == IF S = {} THEN 0
                      ELSE LET d == CHOOSE x \in S : TRUE
                           IN Min2(Count(secret, d), Count(guess, d)) + SumOver(S \ {d})
    IN SumOver(ds)

compute_feedback_user(secret, guess) ==
    LET bulls == Cardinality({ i \in 1 .. Min2(Len(secret), Len(guess)) : secret[i] = guess[i] })
    IN << bulls, Common(secret, guess) - bulls >>

\* ------------------------------------------------------------ guess space
\* itertools.permutations('0123456789', 4): the 4-permutations in
\* lexicographic order of the (sorted) alphabet.
RECURSIVE PermsFrom(_), PermsExt(_, _)
PermsFrom(prefix) ==
    IF Len(prefix) = CodeLen THEN << prefix >> ELSE PermsExt(prefix, 0)

PermsExt(prefix, d) ==
    IF d >= NumDigits THEN << >>
    ELSE (IF Contains(prefix, d) THEN << >> ELSE PermsFrom(Append(prefix, d)))
         \o PermsExt(prefix, d + 1)

AllCodes == PermsFrom(<< >>)

\* ------------------------------------------------------------ filter_codes
\* Keeps as it would be with the bulls compared alone
KeepsMut(code, guess, bulls, cows) == compute_feedback(code, guess)[1] = bulls

\* Keeps as it would be with bulls and cows compared crosswise
KeepsSwapped(code, guess, bulls, cows) ==
    LET fb == compute_feedback(code, guess)
    IN fb[1] = cows /\ fb[2] = bulls

\* Lines 67-68: the test of one code.
Keeps(code, guess, bulls, cows) ==
    LET fb == compute_feedback(code, guess)
    IN fb[1] = bulls /\ fb[2] = cows

\* Lines 65-70: the loop over possible_codes, appending the kept codes in
\* their order.
filter_codes(possible_codes, guess, bulls, cows) ==
    SelectSeq(possible_codes, LAMBDA code : Keeps(code, guess, bulls, cows))

\* ------------------------------------------- exact naturals for the entropy
\* A natural number as its limbs in base BigBase, least significant first,
\* the last limb non-zero; << >> is 0.
BigBase == 1000

BigOne == << 1 >>

Limb(a, i) == IF 1 <= i /\ i <= Len(a) THEN a[i] ELSE 0

\* SUM a[i] * b[k + 1 - i] for i in lo..hi
RECURSIVE ConvSum(_, _, _, _, _)
ConvSum(a, b, k, lo, hi) ==
    IF lo > hi THEN 0
    ELSE IF lo = hi THEN a[lo] * b[k + 1 - lo]
    ELSE LET mid == (lo + hi) \div 2
         IN ConvSum(a, b, k, lo, mid) + ConvSum(a, b, k, mid + 1, hi)

\* the limbs of a * b before the carries are propagated
Convolve(a, b) ==
    ListOf([ k \in 1 .. (Len(a) + Len(b)) |->
        ConvSum(a, b, k, IF k > Len(b) THEN k + 1 - Len(b) ELSE 1, Min2(Len(a), k)) ])

\* one round of carries: each limb keeps its remainder and takes the
\* quotient of the limb below
CarryRound(x) ==
    ListOf([ k \in 1 .. (Len(x) + 1) |->
        (Limb(x, k) % BigBase) + (Limb(x, k - 1) \div BigBase) ])

Trimmed(x) ==
    LET nz == { k \in 1 .. Len(x) : x[k] # 0 }
    IN IF nz = {} THEN << >>
       ELSE SubSeq(x, 1, CHOOSE k \in nz : \A j \in nz : j <= k)

RECURSIVE Normalized(_)
Normalized(x) ==
    IF \A k \in 1 .. Len(x) : x[k] < BigBase THEN Trimmed(x)
    ELSE Normalized(CarryRound(x))

BigMul(a, b) == Normalized(Convolve(a, b))

\* the limbs of the integer m >= 0
FromInt(m) == Normalized(<< m >>)

RECURSIVE BigLessFrom(_, _, _)
BigLessFrom(a, b, i) ==
    IF i = 0 THEN FALSE
    ELSE IF a[i] # b[i] THEN a[i] < b[i] ELSE BigLessFrom(a, b, i - 1)

\* a < b
BigLess(a, b) ==
    IF Len(a) # Len(b) THEN Len(a) < Len(b) ELSE BigLessFrom(a, b, Len(a))

\* c^k, by squaring
RECURSIVE BigPow(_, _)
BigPow(c, k) ==
    IF k = 0 THEN BigOne
    ELSE IF k % 2 = 0 THEN LET h == BigPow(c, k \div 2) IN BigMul(h, h)
    ELSE BigMul(BigPow(c, k - 1), FromInt(c))

\* c^c, the weight of a feedback class of c codes, for every size a list of
\* the model can have
MaxClass == IF Len(AllCodes) > MaxList THEN Len(AllCodes) ELSE MaxList

SelfPower == [ c \in 1 .. MaxClass |-> BigPow(c, c) ]

\* ------------------------------------------------------- calculate_entropy
\* An entropy value: minus_one is the initial max_entropy = -1 of line 122;
\* otherwise the value is log2(n) - log2(P)/n, summed over the classes in the
\* order `counts` (the dict's insertion order: the order in which the
\* feedbacks first appear along possible_codes).
EntropyMinusOne == [ minus_one |-> TRUE, n |-> 0, P |-> BigOne, counts |-> << >> ]

\* 0.0 of line 90 (no codes)
EntropyEmpty == [ minus_one |-> FALSE, n |-> 0, P |-> BigOne, counts |-> << >> ]

RECURSIVE ClassProduct(_, _)
ClassProduct(counts, k) ==
    IF k = 0 THEN BigOne ELSE BigMul(SelfPower[counts[k]], ClassProduct(counts, k - 1))

\* Lines 93-96: feedback_counts.values(), in insertion order
feedback_counts(possible_codes, guess) ==
    LET n == Len(possible_codes)
        fbs == ListOf([ i \in 1 .. n |-> compute_feedback(possible_codes[i], guess) ])
        firsts == { i \in 1 .. n : \A j \in 1 .. (i - 1) : fbs[j] # fbs[i] }
        nth(r) == CHOOSE i \in firsts : Cardinality({ j \in firsts : j < i }) = r - 1
    IN ListOf([ r \in 1 .. Cardinality(firsts) |->
                  Cardinality({ i \in 1 .. n : fbs[i] = fbs[nth(r)] }) ])

calculate_entropy(possible_codes, guess) ==
    IF Len(possible_codes) = 0 THEN EntropyEmpty
    ELSE LET counts == feedback_counts(possible_codes, guess)
         IN [ minus_one |-> FALSE, n |-> Len(possible_codes),
              P |-> ClassProduct(counts, Len(counts)), counts |-> counts ]

\* The float comparison e > m of a computed entropy e (e >= 0) with a running
\* maximum m over the same candidate list.  Different exact values compare
\* as the exact values do.  Equal exact values summed over the same counts in
\* the same order are the same float; summed in another order they may
\* differ in the last bits, either way: `high` is the order of counts whose
\* sum the floating-point unit rounds highest (<< >>: none).
EntropyGreater(e, m, high) ==
    \/ m.minus_one
    \/ BigLess(e.P, m.P)
    \/ e.P = m.P /\ e.counts = high /\ m.counts # high

\* e == 0.0: one feedback class, P = n^n
EntropyIsZero(e) == ~e.minus_one /\ (e.n = 0 \/ e.P = SelfPower[e.n])

\* --------------------------------------------------------- find_best_guess
\* early_exit as it would be with the break taken after any guess
early_exit_always(max_entropy, possible_codes) == ~max_entropy.minus_one

\* Line 133: abs(max_entropy - math.log2(len(possible_codes))) < 1e-10
early_exit(max_entropy, possible_codes) ==
    ~max_entropy.minus_one /\ max_entropy.P = BigOne

\* improves as it would be with >= for the > of line 128
improves_or_ties(entropy, max_entropy, high) ==
    ~EntropyGreater(max_entropy, entropy, high)

\* Line 128: if entropy > max_entropy
improves(entropy, max_entropy, high) == EntropyGreater(entropy, max_entropy, high)

\* search_start as it would be with max_entropy = 0 (the entropy of a guess
\* that tells nothing) for the -1 of line 122
search_start_zero(possible_codes) ==
    [ max_entropy |-> [ minus_one |-> FALSE, n |-> Len(possible_codes),
                        P |-> SelfPower[Len(possible_codes)],
                        counts |-> << Len(possible_codes) >> ],
      best_guess |-> possible_codes[1],
      broke |-> FALSE ]

\* Lines 122-123: the state of the search before the loop
search_start(possible_codes) ==
    [ max_entropy |-> EntropyMinusOne,
      best_guess |-> possible_codes[1],
      broke |-> FALSE ]

\* Line 127 for every guess of all_codes: calculate_entropy is pure, so the
\* value the loop computes at iteration i is entropies[i]
entropy_of_guesses(possible_codes, all_codes) ==
    ListOf([ i \in 1 .. Len(all_codes) |->
               calculate_entropy(possible_codes, all_codes[i]) ])

\* Lines 127-134: the body of the loop for guess number i, on the loop's
\* state st (max_entropy, best_guess, and whether the break was taken)
GuessStep(entropies, possible_codes, all_codes, high, i, st) ==
    LET entropy == entropies[i]
        better == improves(entropy, st.max_entropy, high)
        m == IF better THEN entropy ELSE st.max_entropy
    IN [ max_entropy |-> m,
         best_guess |-> IF better THEN all_codes[i] ELSE st.best_guess,
         broke |-> early_exit(m, possible_codes) ]

\* Lines 126-134: the iterations lo..hi in order, none after a break (the
\* range is halved only to keep the evaluation's nesting shallow)
RECURSIVE GuessLoop(_, _, _, _, _, _, _)
GuessLoop(entropies, possible_codes, all_codes, high, lo, hi, st) ==
    IF st.broke \/ lo > hi THEN st
    ELSE IF lo = hi THEN GuessStep(entropies, possible_codes, all_codes, high, lo, st)
    ELSE LET mid == (lo + hi) \div 2
         IN GuessLoop(entropies, possible_codes, all_codes, high, mid + 1, hi,
                      GuessLoop(entropies, possible_codes, all_codes, high, lo, mid, st))

\* Lines 122-136 given the entropies of the guesses, for a non-empty
\* possible_codes (possible_codes[0] of line 123 raises IndexError on an
\* empty list: see StartRound)
best_guess_among(entropies, possible_codes, all_codes, high) ==
    LET st == GuessLoop(entropies, possible_codes, all_codes, high, 1, Len(all_codes),
                        search_start(possible_codes))
    IN [ guess |-> st.best_guess, entropy |-> st.max_entropy ]

find_best_guess(possible_codes, all_codes, high) ==
    best_guess_among(entropy_of_guesses(possible_codes, all_codes),
                     possible_codes, all_codes, high)

\* The orders of counts among the entropies, and none
Roundings(entropies) ==
    { entropies[i].counts : i \in 1 .. Len(entropies) } \cup { << >> }

\* ------------------------------------------------------------------ state
VARIABLES
    possible_codes,    \* main: the candidate list
    guess,             \* main: the current guess (<< >> before the first)
    expected_entropy,  \* main: the entropy find_best_guess returned
    attempts,          \* main: the attempt counter
    feedback,          \* main: the last line read, stripped and lower-cased
    output,            \* main: the kind of the last message printed
    pc,                \* main: where the driver is
    history,           \* the (guess, bulls, cows) handed to filter_codes so far
    args,              \* a stand-alone call: its arguments
    result             \* a stand-alone call: what it returned

vars == << possible_codes, guess, expected_entropy, attempts, feedback, output,
           pc, history, args, result >>

driver_vars == << possible_codes, guess, expected_entropy, attempts, feedback,
                  output, history >>

\* ------------------------------------------------------- the lines of input
\* A line is the sequence of its whitespace-separated tokens; a token is an
\* integer literal or a word.
IntTok(k) == [ int |-> TRUE, v |-> k, w |-> "" ]

WordTok(t) == [ int |-> FALSE, v |-> 0, w |-> t ]

Lines ==
    { << IntTok(bc[1]), IntTok(bc[2]) >> :
        bc \in { p \in (0 .. MaxFeedback) \X (0 .. MaxFeedback) : p[1] + p[2] <= MaxFeedback } }
    \cup { << IntTok(MaxFeedback), IntTok(1) >>,
           << IntTok(MaxFeedback + 1), IntTok(0) >>, << IntTok(0), IntTok(MaxFeedback + 1) >>,
           << IntTok(-1), IntTok(0) >>, << IntTok(0), IntTok(-1) >> }
    \cup { << >>, << WordTok("win") >>, << WordTok("WIN") >>, << WordTok("abc") >>,
           << IntTok(1) >>, << IntTok(1), WordTok("abc") >>,
           << WordTok("win"), WordTok("win") >>,
           << IntTok(1), IntTok(2), IntTok(3) >> }

\* Line 178: .strip().lower()
Lower(tok) == IF tok.int THEN tok ELSE WordTok(IF tok.w = "WIN" THEN "win" ELSE tok.w)

StripLower(line) == [ i \in 1 .. Len(line) |-> Lower(line[i]) ]

\* Line 179: feedback == 'win'
IsWin(fb) == fb = << WordTok("win") >>

\* Line 182: bulls, cows = map(int, feedback.split()) raises ValueError unless
\* there are exactly two tokens and both are integers
Parses(fb) == Len(fb) = 2 /\ fb[1].int /\ fb[2].int

\* InRange as it would be without bulls + cows <= 4
InRangeNoSum(bulls, cows) ==
    0 <= bulls /\ bulls <= MaxFeedback /\ 0 <= cows /\ cows <= MaxFeedback

\* Line 183
InRange(bulls, cows) ==
    /\ 0 <= bulls /\ bulls <= MaxFeedback
    /\ 0 <= cows /\ cows <= MaxFeedback
    /\ bulls + cows <= MaxFeedback

\* AfterFilter as it would be without the check of lines 197-200
AfterFilterNoSolved(codes) ==
    IF Len(codes) = 0 THEN "contradiction" ELSE "round"

\* Lines 193-200: what the driver does with the filtered list
AfterFilter(codes) ==
    IF Len(codes) = 0 THEN "contradiction"
    ELSE IF Len(codes) = 1 THEN "solved"
    ELSE "round"

\* ----------------------------------------------------------------- main
\* Lines 150-160
Init ==
    /\ possible_codes = AllCodes
    /\ guess = << >>
    /\ expected_entropy = EntropyEmpty
    /\ attempts = 0
    /\ feedback = << >>
    /\ output = "instructions"
    /\ pc = "round"
    /\ history = << >>
    /\ args = << >>
    /\ result = << >>

\* Lines 164-173: the top of the loop.  find_best_guess on an empty list
\* raises IndexError (line 123), which nothing catches.
StartRound ==
    /\ pc = "round"
    /\ attempts' = attempts + 1
    /\ IF Len(possible_codes) = 0
       THEN /\ pc' = "crashed"
            /\ output' = "traceback"
            /\ UNCHANGED << guess, expected_entropy >>
       ELSE LET entropies == entropy_of_guesses(possible_codes, AllCodes)
            IN \E high \in Roundings(entropies) :
               LET best == best_guess_among(entropies, possible_codes, AllCodes, high)
               IN /\ guess' = best.guess
                  /\ expected_entropy' = best.entropy
                  /\ output' = "guess"
                  /\ pc' = "input"
    /\ UNCHANGED << possible_codes, feedback, history, args, result >>

\* Lines 178-181: 'win'
ReadWin ==
    /\ pc = "input"
    /\ \E line \in Lines :
          /\ IsWin(StripLower(line))
          /\ feedback' = StripLower(line)
    /\ output' = "won"
    /\ pc' = "won"
    /\ UNCHANGED << possible_codes, guess, expected_entropy, attempts, history, args, result >>

\* Lines 182-187: a line that does not parse, or parses to numbers out of
\* range; the inner loop prompts again
ReadInvalid ==
    /\ pc = "input"
    /\ \E line \in Lines :
          LET fb == StripLower(line)
          IN /\ ~IsWin(fb)
             /\ ~(Parses(fb) /\ InRange(fb[1].v, fb[2].v))
             /\ feedback' = fb
             /\ output' = IF Parses(fb) THEN "invalid_feedback" ELSE "invalid_input"
    /\ pc' = "input"
    /\ UNCHANGED << possible_codes, guess, expected_entropy, attempts, history, args, result >>

\* Lines 182-184 and 190-200: a valid feedback, the filter, the checks
ReadFeedback ==
    /\ pc = "input"
    /\ \E line \in Lines :
          LET fb == StripLower(line)
          IN /\ ~IsWin(fb)
             /\ Parses(fb)
             /\ InRange(fb[1].v, fb[2].v)
             /\ feedback' = fb
             /\ possible_codes' = filter_codes(possible_codes, guess, fb[1].v, fb[2].v)
             /\ history' = Append(history, [ guess |-> guess, bulls |-> fb[1].v, cows |-> fb[2].v ])
    /\ pc' = AfterFilter(possible_codes')
    /\ output' = IF pc' = "round" THEN output ELSE pc'
    /\ UNCHANGED << guess, expected_entropy, attempts, args, result >>

Next == StartRound \/ ReadWin \/ ReadInvalid \/ ReadFeedback

Spec == Init /\ [][Next]_vars

\* ------------------------------------------------ the functions on their own
\* A call of one function with arguments of its own: pc is "call" before it
\* and "return" after it; the variables of main stay as main has not started.
MainIdle ==
    /\ possible_codes = << >>
    /\ guess = << >>
    /\ expected_entropy = EntropyEmpty
    /\ attempts = 0
    /\ feedback = << >>
    /\ output = ""
    /\ history = << >>

\* the lists of at most m elements of S
ListsOver(S, m) == UNION { [ 1 .. k -> S ] : k \in 0 .. m }

\* `size` codes of the guess space, evenly spread over it, in its order
Pool(size) ==
    LET m == Min2(size, Len(AllCodes))
    IN ListOf([ i \in 1 .. m |-> AllCodes[1 + ((i - 1) * Len(AllCodes)) \div m] ])

\* the sub-lists of list s (elements in the order of s) of 1 to m elements
SubLists(s, m) ==
    { sub \in ListsOver(SeqToSet(s), m) :
        /\ Len(sub) >= 1
        /\ \A i \in 1 .. (Len(sub) - 1) : IndexOf(s, sub[i]) < IndexOf(s, sub[i + 1]) }

\* filter_codes(possible_codes, guess, bulls, cows), lines 51-70
InitFilter ==
    /\ MainIdle
    /\ pc = "call"
    /\ args \in [ possible_codes : ListsOver(SeqToSet(Pool(FilterPool)), MaxList),
                  guess : SeqToSet(AllCodes),
                  bulls : 0 .. MaxFeedback,
                  cows : 0 .. MaxFeedback ]
    /\ result = << >>

FilterCall ==
    /\ pc = "call"
    /\ result' = filter_codes(args.possible_codes, args.guess, args.bulls, args.cows)
    /\ pc' = "return"
    /\ UNCHANGED << driver_vars, args >>

NextFilter == FilterCall

SpecFilter == InitFilter /\ [][NextFilter]_vars

\* find_best_guess(possible_codes, all_codes), lines 106-136: a non-empty
\* list of candidates in the order of the guess space, and a non-empty slice
\* of the guess space (short, or up to its end) as all_codes
GuessSpaces ==
    { SubSeq(AllCodes, lo, hi) :
        lo \in 1 .. Min2(PoolSize, Len(AllCodes)),
        hi \in 1 .. Len(AllCodes) } \ { << >> }

InitSel ==
    /\ MainIdle
    /\ pc = "call"
    /\ args \in [ possible_codes : SubLists(Pool(PoolSize), MaxCand),
                  all_codes : { gs \in GuessSpaces :
                                  Len(gs) <= MaxSpace \/ gs[Len(gs)] = AllCodes[Len(AllCodes)] } ]
    /\ result = << >>

SelCall ==
    /\ pc = "call"
    /\ LET entropies == entropy_of_guesses(args.possible_codes, args.all_codes)
       IN \E high \in Roundings(entropies) :
             LET best == best_guess_among(entropies, args.possible_codes, args.all_codes, high)
             IN result' = [ guess |-> best.guess, entropy |-> best.entropy, high |-> high ]
    /\ pc' = "return"
    /\ UNCHANGED << driver_vars, args >>

NextSel == SelCall

SpecSel == InitSel /\ [][NextSel]_vars

\* the two compute_feedback on one pair of 4-symbol codes over RepDigits
\* digits, repeated digits allowed
RepCodes == [ 1 .. CodeLen -> 0 .. (RepDigits - 1) ]

InitScore ==
    /\ MainIdle
    /\ pc = "call"
    /\ args \in [ secret : RepCodes, guess : RepCodes ]
    /\ result = << >>

ScoreCall ==
    /\ pc = "call"
    /\ result' = [ marking |-> compute_feedback(args.secret, args.guess),
                   counting |-> compute_feedback_user(args.secret, args.guess) ]
    /\ pc' = "return"
    /\ UNCHANGED << driver_vars, args >>

NextScore == ScoreCall

SpecScore == InitScore /\ [][NextScore]_vars

\* =================================================== properties of the driver
\* the feedback round r of the history would have been given for secret s
Agrees(s, r) ==
    compute_feedback(s, history[r].guess) = << history[r].bulls, history[r].cows >>

ConsistentWithHistory(s) == \A r \in 1 .. Len(history) : Agrees(s, r)

\* C1: in every reachable state of the driver, every code of the candidate
\* list is consistent with the whole history: for each round (guess, bulls,
\* cows) processed so far, compute_feedback(code, guess) = (bulls, cows).
C1_CandidatesConsistent ==
    \A i \in 1 .. Len(possible_codes) : ConsistentWithHistory(possible_codes[i])

\* two rounds have been filtered and several candidates are left
C1_Witness ==
    Len(history) >= 2 /\ Len(possible_codes) >= 2 /\ history[1].guess # history[2].guess

\* C5: the termination checks come before the next guess: find_best_guess is
\* entered (pc = "round") only with at least 2 candidates, every guess computed
\* is matched by the rounds filtered so far, a filter result of 0 or 1 codes
\* leaves the driver in its contradiction or solved exit with no further guess
\* computed, and the IndexError of an empty list never happens.
C5_TerminationBeforeGuess ==
    /\ pc = "round" => Len(possible_codes) >= 2 /\ attempts = Len(history)
    /\ pc = "input" => Len(possible_codes) >= 2 /\ attempts = Len(history) + 1
    /\ Len(possible_codes) = 0 <=> pc = "contradiction"
    /\ Len(possible_codes) = 1 <=> pc = "solved"
    /\ pc \in { "contradiction", "solved" } => attempts = Len(history) /\ ~ENABLED Next
    /\ pc # "crashed"

\* the driver stopped on one remaining code after three rounds
C5_Witness == pc = "solved" /\ attempts = 3 /\ Len(possible_codes) = 1

\* a line that is a valid feedback: two integers within the range
ValidLine(fb) ==
    /\ Len(fb) = 2 /\ fb[1].int /\ fb[2].int
    /\ 0 <= fb[1].v /\ fb[1].v <= 4
    /\ 0 <= fb[2].v /\ fb[2].v <= 4
    /\ fb[1].v + fb[2].v <= 4

\* every round handed to filter_codes has a feedback within the range
HistoryInRange ==
    \A r \in 1 .. Len(history) :
        /\ 0 <= history[r].bulls /\ history[r].bulls <= 4
        /\ 0 <= history[r].cows /\ history[r].cows <= 4
        /\ history[r].bulls + history[r].cows <= 4

\* C6 (as stated): filter_codes is called only with a feedback within the
\* range, and any other line read is rejected and prompted for again, with the
\* candidates, the guess and the attempt counter unchanged.
C6_AnyOtherInputReprompted ==
    [][ pc = "input" =>
          /\ HistoryInRange'
          /\ ~ValidLine(feedback') =>
                /\ pc' = "input"
                /\ history' = history
                /\ UNCHANGED << possible_codes, guess, attempts >> ]_vars

\* C6 (amended): filter_codes is called only with a feedback within the range,
\* and any other line read except the word 'win' (in any letter case, which
\* ends the game) is rejected and prompted for again, with the candidates, the
\* guess and the attempt counter unchanged; 'win' also leaves them unchanged.
C6_InvalidInputReprompted ==
    [][ pc = "input" =>
          /\ HistoryInRange'
          /\ history' # history => ValidLine(feedback')
          /\ ~ValidLine(feedback') =>
                /\ history' = history
                /\ UNCHANGED << possible_codes, guess, attempts >>
                /\ IF IsWin(feedback')
                   THEN pc' = "won"
                   ELSE pc' = "input" /\ output' \in { "invalid_feedback", "invalid_input" } ]_vars

\* an out-of-range feedback was rejected at the second guess
C6_Witness ==
    /\ pc = "input" /\ output = "invalid_feedback" /\ Len(history) = 1
    /\ feedback = << IntTok(4), IntTok(1) >>

\* C9: every completed round strictly shrinks the candidates: the codes after
\* filter_codes are a proper subset of the codes before it, so the list never
\* regrows and the rounds filtered are fewer than the codes of the guess space.
C9_RoundShrinks ==
    /\ [](Len(history) + Len(possible_codes) <= Len(AllCodes))
    /\ [][ /\ SeqToSet(possible_codes') \subseteq SeqToSet(possible_codes)
           /\ Len(possible_codes') <= Len(possible_codes)
           /\ history' # history =>
                /\ SeqToSet(possible_codes') # SeqToSet(possible_codes)
                /\ Len(possible_codes') < Len(possible_codes) ]_vars

\* a third round has been completed and candidates are still left
C9_Witness == Len(history) = 3 /\ pc = "round" /\ Len(possible_codes) < Len(AllCodes) - 3

\* C10: for every secret s of the guess space, if every feedback entered so
\* far is compute_feedback(s, guess), then s is among the candidates, the
\* driver is not in its contradiction exit, and if it stopped on one remaining
\* code that code is s.
C10_HonestFeedbackKeepsSecret ==
    \A k \in 1 .. Len(AllCodes) :
        ConsistentWithHistory(AllCodes[k]) =>
            /\ Contains(possible_codes, AllCodes[k])
            /\ pc # "contradiction"
            /\ pc = "solved" => possible_codes = << AllCodes[k] >>

\* the driver stopped on the one code that agrees with two rounds of feedback
C10_Witness ==
    /\ pc = "solved" /\ Len(history) = 2
    /\ \E k \in 1 .. Len(AllCodes) :
          ConsistentWithHistory(AllCodes[k]) /\ possible_codes = << AllCodes[k] >>

\* ============================================ properties of the functions
\* C2: filter_codes(C, G, b, c) returns exactly the codes D of C with
\* compute_feedback(D, G) = (b, c): the codes at the matching positions of C,
\* each once and in the order of C, and nothing else.
C2_FilterExact ==
    pc = "return" =>
        LET C == args.possible_codes
            matches == ListOf([ i \in 1 .. Len(C) |->
                          compute_feedback(C[i], args.guess) = << args.bulls, args.cows >> ])
            before(i) == Cardinality({ j \in 1 .. i : matches[j] })
        IN /\ Len(result) = before(Len(C))
           /\ \A i \in 1 .. Len(C) :
                 IF matches[i]
                 THEN result[before(i)] = C[i]
                 ELSE \A k \in 1 .. Len(result) : result[k] # C[i]
           /\ \A k \in 1 .. Len(result) :
                 \E i \in 1 .. Len(C) : matches[i] /\ result[k] = C[i]

\* of three codes the first is removed and the other two, different, are kept
C2_Witness ==
    /\ pc = "return" /\ Len(args.possible_codes) = 3 /\ Len(result) = 2
    /\ result = Tail(args.possible_codes)
    /\ args.possible_codes[2] # args.possible_codes[3]

\* the entropies find_best_guess computed in the call that returned
CallEntropies == entropy_of_guesses(args.possible_codes, args.all_codes)

\* the search of lines 126-130 run over the guesses lo..hi in order, without
\* the break, on the state st of the search: the maximum so far and the
\* number of guesses evaluated (the range is halved only to keep the
\* evaluation's nesting shallow)
RECURSIVE ExhaustiveLoop(_, _, _, _, _)
ExhaustiveLoop(entropies, high, lo, hi, st) ==
    IF st.evaluated >= hi \/ lo > hi THEN st
    ELSE IF lo = hi
         THEN [ max_entropy |-> IF EntropyGreater(entropies[lo], st.max_entropy, high)
                                THEN entropies[lo] ELSE st.max_entropy,
                evaluated |-> lo ]
    ELSE ExhaustiveLoop(entropies, high, (lo + hi) \div 2 + 1, hi,
                        ExhaustiveLoop(entropies, high, lo, (lo + hi) \div 2, st))

ExhaustiveMax(entropies, high) ==
    ExhaustiveLoop(entropies, high, 1, Len(entropies),
                   [ max_entropy |-> EntropyMinusOne, evaluated |-> 0 ]).max_entropy

\* the position of the returned guess in all_codes
ReturnedPosition == IndexOf(args.all_codes, result.guess)

\* C3: for a non-empty candidate list and a guess space, find_best_guess with
\* its break returns the same maximum entropy as the search run to the end of
\* the guess space without the break.
C3_EarlyExitSameMaximum ==
    pc = "return" =>
        result.entropy = ExhaustiveMax(CallEntropies, result.high)

\* the break was taken before the end of the guess space, after a guess that
\* did not reach the ceiling
C3_Witness ==
    /\ pc = "return" /\ Len(args.possible_codes) >= 2
    /\ result.entropy.P = BigOne
    /\ ReturnedPosition > 1
    /\ ReturnedPosition + 2 <= Len(args.all_codes)

\* C4 (as stated): with exactly one candidate, find_best_guess returns that
\* code itself as the guess, with entropy 0, for any guess space containing it.
C4_SingleCandidateReturned ==
    (pc = "return" /\ Len(args.possible_codes) = 1
        /\ Contains(args.all_codes, args.possible_codes[1])) =>
        /\ result.guess = args.possible_codes[1]
        /\ EntropyIsZero(result.entropy)

\* C4 (amended): with exactly one candidate, find_best_guess returns the first
\* code of the guess space as the guess, with entropy 0; the guess is the
\* remaining code itself only when that code is the first of the guess space.
C4_SingleCandidateFirstGuess ==
    (pc = "return" /\ Len(args.possible_codes) = 1) =>
        /\ result.guess = args.all_codes[1]
        /\ EntropyIsZero(result.entropy)
        /\ result.guess = args.possible_codes[1] <=> args.possible_codes[1] = args.all_codes[1]

\* one candidate that is in the guess space but not its first code
C4_Witness ==
    /\ pc = "return" /\ Len(args.possible_codes) = 1
    /\ Contains(args.all_codes, args.possible_codes[1])
    /\ args.possible_codes[1] # args.all_codes[1]

\* C7: for a non-empty candidate list, the returned guess is the first code of
\* all_codes whose entropy is the maximum over all_codes: no code has a larger
\* entropy and every earlier code has a smaller one; the returned entropy is
\* that code's.
C7_FirstMaximumWins ==
    pc = "return" =>
        LET entropies == CallEntropies
            best == ReturnedPosition
        IN /\ result.entropy = entropies[best]
           /\ \A j \in 1 .. Len(entropies) :
                 ~EntropyGreater(entropies[j], entropies[best], result.high)
           /\ \A j \in 1 .. (best - 1) :
                 EntropyGreater(entropies[best], entropies[j], result.high)

\* a later code ties with the returned guess below the ceiling, and an
\* earlier code has less
C7_Witness ==
    /\ pc = "return" /\ ReturnedPosition > 1
    /\ result.entropy.P # BigOne
    /\ \E j \in (ReturnedPosition + 1) .. Len(args.all_codes) :
          /\ CallEntropies[j].P = result.entropy.P
          /\ ~EntropyGreater(result.entropy, CallEntropies[j], result.high)

\* C8: the marking compute_feedback and the counting compute_feedback return
\* the same (bulls, cows) for every pair of 4-symbol digit codes, repeated
\* digits included.
C8_ScorersAgree == pc = "return" => result.marking = result.counting

\* a guess with a repeated digit that the secret holds once, elsewhere
C8_Witness ==
    /\ pc = "return"
    /\ Count(args.guess, args.guess[1]) >= 2
    /\ Count(args.secret, args.guess[1]) = 1
    /\ args.secret[1] # args.guess[1]
    /\ result.marking[2] >= 1

====
